---- MODULE Spec2Model ----
(***************************************************************************)
(* Sales-lead CRM: the lead score engine (sales_lead.py), the edit page's  *)
(* audit diff/merge (streamlit_app.py, edit_lead_page), lead creation      *)
(* (create_new_lead_form, generate_random_record), the refresh job         *)
(* (update_sales_lead.py) and the summary endpoint (app.py).  Deal sizes   *)
(* are whole USD; times are whole seconds, the resolution of the           *)
(* audit_date string.                                                      *)
(***************************************************************************)
EXTENDS Integers, Sequences, FiniteSets, TLC

VARIABLES
    store,      \* the document collection: document key -> document
    clock,      \* wall clock, seconds; audit_date is the clock of the call
    edit,       \* the edit page run: the lead it read and the submitted form
    job,        \* the refresh job: the document it read
    res,        \* what the last diff/merge call was given and what it returned
    scoreIn,    \* arguments of a lead_score_weighted call
    scoreOut    \* the base it drew and the score it returned

vars == <<store, clock, edit, job, res, scoreIn, scoreOut>>

(***************************************************************************)
(* sales_lead.py: constants                                                *)
(***************************************************************************)
None == "None"

PROSPECT == "Prospect"
QUALIFIED == "Qualified"
NEGOTIATION == "Negotiation"
WON == "Won"
LOST == "Lost"

DISCOVERY == "Discovery"
PROPOSAL_SENT == "Proposal Sent"
CONTRACT_SENT == "Contract Sent"
CLOSED_WON == "Closed Won"
CLOSED_LOST == "Closed Lost"

LEAD_STATUSES == <<PROSPECT, QUALIFIED, NEGOTIATION, WON, LOST>>

PIPELINE_STAGES ==
    <<DISCOVERY, PROPOSAL_SENT, CONTRACT_SENT, NEGOTIATION, CLOSED_WON, CLOSED_LOST>>

MARKET_REGIONS ==
    <<"North America", "Europe", "Southeast Asia", "South America",
      "Middle East", "Africa">>

LEAD_SOURCES ==
    <<"Referral", "Cold Call", "Inbound Web Lead", "Trade Show",
      "Partner Referral", "Ad Campaign">>

STATUS_PIPELINE_MAPPING ==
    (PROSPECT :> <<DISCOVERY, PROPOSAL_SENT, CONTRACT_SENT, NEGOTIATION>>)
    @@ (QUALIFIED :> <<DISCOVERY, PROPOSAL_SENT, CONTRACT_SENT, NEGOTIATION>>)
    @@ (NEGOTIATION :> <<PROPOSAL_SENT, CONTRACT_SENT, NEGOTIATION>>)
    @@ (WON :> <<CLOSED_WON>>)
    @@ (LOST :> <<CLOSED_LOST>>)

\* STATUS_SCORES with the points of Negotiation and Qualified exchanged
STATUS_SCORES_exchanged ==
    (WON :> 25) @@ (NEGOTIATION :> 10) @@ (QUALIFIED :> 15)
    @@ (PROSPECT :> 5) @@ (LOST :> -10)

STATUS_SCORES ==
    (WON :> 25) @@ (NEGOTIATION :> 15) @@ (QUALIFIED :> 10)
    @@ (PROSPECT :> 5) @@ (LOST :> -10)

\* PIPELINE_SCORES with Closed Lost taking 30 points off
PIPELINE_SCORES_steep ==
    (CLOSED_WON :> 25) @@ (CONTRACT_SENT :> 15) @@ (PROPOSAL_SENT :> 10)
    @@ (DISCOVERY :> 5) @@ (CLOSED_LOST :> -30) @@ (NEGOTIATION :> 20)

PIPELINE_SCORES ==
    (CLOSED_WON :> 25) @@ (CONTRACT_SENT :> 15) @@ (PROPOSAL_SENT :> 10)
    @@ (DISCOVERY :> 5) @@ (CLOSED_LOST :> -10) @@ (NEGOTIATION :> 20)

\* dict.get(key, default)
Get(d, key, default) == IF key \in DOMAIN d THEN d[key] ELSE default

Range(s) == {s[i] : i \in DOMAIN s}

(***************************************************************************)
(* sales_lead.py: lead_score_weighted.  The random.randint(20, 50) draw is *)
(* the parameter base.  The running total is the rational                  *)
(* base + min(d / 166666, 30) + ..., kept here as a numerator over         *)
(* DealDivisor; int() truncates it toward zero.                            *)
(***************************************************************************)
BaseMin == 20
BaseMax == 50
DealDivisor == 166666
DealCap == 30
CrmBonus == 10
ScoreMin == 0
ScoreMax == 100
HighPriorityMin == 80

BaseRange == BaseMin..BaseMax

\* the deal contribution wrapping around at the cap instead of saturating
DealScoreNumWrap(last_deal_size) == last_deal_size % (DealCap * DealDivisor)

\* the deal contribution without the cap
DealScoreNumUncapped(last_deal_size) == last_deal_size

\* min(last_deal_size / 166666, 30), times DealDivisor
DealScoreNum(last_deal_size) ==
    IF last_deal_size < DealCap * DealDivisor
    THEN last_deal_size ELSE DealCap * DealDivisor

\* int(x) for the rational x = num / DealDivisor
TruncDiv(num) ==
    IF num >= 0 THEN num \div DealDivisor ELSE -((-num) \div DealDivisor)

\* the running total before int() and the clamp, times DealDivisor
RunningTotalNum(base, last_deal_size, lead_status, pipeline_stage, crm_active) ==
    (base + Get(STATUS_SCORES, lead_status, 0)
          + Get(PIPELINE_SCORES, pipeline_stage, 0)
          + (IF crm_active THEN CrmBonus ELSE 0)) * DealDivisor
    + DealScoreNum(last_deal_size)

\* Clamp without the upper limit
ClampLowOnly(x) == IF x > ScoreMin THEN x ELSE ScoreMin

Clamp(x) ==
    LET lo == IF x > ScoreMin THEN x ELSE ScoreMin
    IN  IF lo < ScoreMax THEN lo ELSE ScoreMax

\* lead_score_weighted with the terminal-state check on Won alone
lead_score_weighted_won_only(base, last_deal_size, lead_status, pipeline_stage, crm_active) ==
    IF lead_status = WON
    THEN 0
    ELSE Clamp(TruncDiv(RunningTotalNum(base, last_deal_size, lead_status,
                                        pipeline_stage, crm_active)))

\* lead_score_weighted giving a closed lead a score below zero
lead_score_weighted_closed_negative(base, last_deal_size, lead_status, pipeline_stage, crm_active) ==
    IF lead_status \in {WON, LOST}
    THEN -1
    ELSE Clamp(TruncDiv(RunningTotalNum(base, last_deal_size, lead_status,
                                        pipeline_stage, crm_active)))

lead_score_weighted(base, last_deal_size, lead_status, pipeline_stage, crm_active) ==
    IF lead_status \in {WON, LOST}
    THEN 0
    ELSE Clamp(TruncDiv(RunningTotalNum(base, last_deal_size, lead_status,
                                        pipeline_stage, crm_active)))

\* the derived flag: score >= 80 (streamlit_app.py, update_sales_lead.py,
\* insert_sales_lead.py all compute it the same way)
HighPriority(score) == score >= HighPriorityMin

\* the choices built from every status and every stage, the mapping ignored
random_any_status_and_pipeline_stage ==
    {<<s, p>> : s \in Range(LEAD_STATUSES), p \in Range(PIPELINE_STAGES)}

\* random_lead_status_and_pipeline_stage: the list random.choice draws from
random_lead_status_and_pipeline_stage ==
    UNION {{<<s, p>> : p \in Range(STATUS_PIPELINE_MAPPING[s])} :
              s \in Range(LEAD_STATUSES)}

\* random_notes: the samples random.choice draws from
random_notes ==
    {"Contacted client, awaiting response.",
     "Sent proposal, pending approval.",
     "Negotiations ongoing, positive signs.",
     "Lost contact, follow-up needed.",
     "Client requested revised pricing."}

(***************************************************************************)
(* Documents.  A document is a map from its top-level keys ("lead_id",     *)
(* "sales_lead", "old_data") to their values; "sales_lead" is a map from   *)
(* field names to values and "old_data" a map from field names to          *)
(* {old_value, audit_date}.  A document key is the list of its "::"        *)
(* separated parts: lead::<uuid> is <<"lead", uuid>>.                      *)
(***************************************************************************)
EmptyMap == [x \in {} |-> x]

\* d[key] = value on a dict, adding the key when it is new
Put(d, key, value) ==
    [x \in DOMAIN d \cup {key} |-> IF x = key THEN value ELSE d[x]]

\* the keys of fields_to_check, streamlit_app.py
TrackedFields ==
    {"company_name", "primary_market_region", "market_cap_usd",
     "annual_sales_usd", "number_of_customers", "sales_contact_name",
     "sales_contact_email", "date_of_last_contact", "lead_source",
     "crm_activity_flag", "lead_status", "pipeline_stage",
     "last_deal_size_usd", "lead_score", "notes", "quarter"}

\* the widgets of the edit form: every tracked field but the derived score
FormFields == TrackedFields \ {"lead_score"}

QuarterOptions == {"Q1 2025", "Q2 2025", "Q3 2025", "Q4 2025"}

AuditEntry(old_value, audit_date) ==
    [old_value |-> old_value, audit_date |-> audit_date]

DocKey(lead_id) == <<"lead", lead_id>>

\* upsert writing under the key with "lead::" put in front once more
upsert_prefixed(coll, key, doc) == Put(coll, <<"lead">> \o key, doc)

\* an upsert that keeps the history entries of the document it replaces
upsert_merging(coll, key, doc) ==
    IF key \in DOMAIN coll /\ "old_data" \in DOMAIN coll[key]
    THEN Put(coll, key,
             Put(doc, "old_data",
                 [f \in DOMAIN coll[key]["old_data"] \cup DOMAIN Get(doc, "old_data", EmptyMap) |->
                     IF f \in DOMAIN Get(doc, "old_data", EmptyMap)
                     THEN doc["old_data"][f] ELSE coll[key]["old_data"][f]]))
    ELSE Put(coll, key, doc)

\* collection.upsert(key, doc): the document stored under key, replacing the
\* one that was there
upsert(coll, key, doc) == Put(coll, key, doc)

(***************************************************************************)
(* update_sales_lead.py: update_document(doc).  Its three random draws     *)
(* (the status/stage pair, the note, the score's base) and the clock are   *)
(* parameters.  The working state w is the function's locals: the          *)
(* sales_lead section sl, the old_data dict old and the changed flag.      *)
(***************************************************************************)
\* UpdateStatusPipeline writing the drawn status and leaving the stage
UpdateStatusOnly(w, new_status, new_pipeline, audit_date) ==
    LET current_status == Get(w.sl, "lead_status", None)
    IN  IF new_status # current_status
        THEN [sl |-> Put(w.sl, "lead_status", new_status),
              old |-> Put(w.old, "lead_status",
                          AuditEntry(current_status, audit_date)),
              changed |-> TRUE]
        ELSE w

\* UpdateStatusPipeline with one history entry per value that differs
UpdateStatusPipelineSeparately(w, new_status, new_pipeline, audit_date) ==
    LET current_pipeline == Get(w.sl, "pipeline_stage", None)
        current_status == Get(w.sl, "lead_status", None)
        old1 == IF new_status # current_status
                THEN Put(w.old, "lead_status",
                         AuditEntry(current_status, audit_date))
                ELSE w.old
        old2 == IF new_pipeline # current_pipeline
                THEN Put(old1, "pipeline_stage",
                         AuditEntry(current_pipeline, audit_date))
                ELSE old1
    IN  IF new_status # current_status \/ new_pipeline # current_pipeline
        THEN [sl |-> Put(Put(w.sl, "lead_status", new_status),
                         "pipeline_stage", new_pipeline),
              old |-> old2,
              changed |-> TRUE]
        ELSE w

\* lines 38-52: lead_status and pipeline_stage
UpdateStatusPipeline(w, new_status, new_pipeline, audit_date) ==
    LET current_pipeline == Get(w.sl, "pipeline_stage", None)
        current_status == Get(w.sl, "lead_status", None)
    IN  IF new_status # current_status \/ new_pipeline # current_pipeline
        THEN [sl |-> Put(Put(w.sl, "lead_status", new_status),
                         "pipeline_stage", new_pipeline),
              old |-> Put(Put(w.old, "lead_status",
                              AuditEntry(current_status, audit_date)),
                          "pipeline_stage",
                          AuditEntry(current_pipeline, audit_date)),
              changed |-> TRUE]
        ELSE w

\* UpdateNotes with the audit entry written outside the if
UpdateNotesUnguarded(w, new_note, audit_date) ==
    LET current_note == Get(w.sl, "notes", None)
    IN  [sl |-> Put(w.sl, "notes", new_note),
         old |-> Put(w.old, "notes", AuditEntry(current_note, audit_date)),
         changed |-> w.changed \/ new_note # current_note]

\* lines 55-60: notes
UpdateNotes(w, new_note, audit_date) ==
    LET current_note == Get(w.sl, "notes", None)
    IN  IF new_note # current_note
        THEN [sl |-> Put(w.sl, "notes", new_note),
              old |-> Put(w.old, "notes", AuditEntry(current_note, audit_date)),
              changed |-> TRUE]
        ELSE w

\* UpdateScore leaving the stored score alone
UpdateScoreKept(w, base, new_status, new_pipeline, audit_date) == w

\* lines 63-73: lead_score
UpdateScore(w, base, new_status, new_pipeline, audit_date) ==
    LET current_score == Get(w.sl, "lead_score", 0)
        new_score ==
            lead_score_weighted(base, Get(w.sl, "last_deal_size_usd", 0),
                                new_status, new_pipeline,
                                Get(w.sl, "crm_activity_flag", FALSE))
    IN  IF new_score # current_score
        THEN [sl |-> Put(w.sl, "lead_score", new_score),
              old |-> Put(w.old, "lead_score",
                          AuditEntry(current_score, audit_date)),
              changed |-> TRUE]
        ELSE w

\* line 76: doc["sales_lead"]["lead_score"] raises KeyError when the key is absent
UpdateFlagRaises(sl) == "lead_score" \notin DOMAIN sl

\* UpdateFlag leaving the stored flag as it was
UpdateFlagStale(sl) == sl

\* line 76: high_priority_flag based on lead_score
UpdateFlag(sl) == Put(sl, "high_priority_flag", HighPriority(sl["lead_score"]))

\* the value returned: (doc, changed), or raised when an exception leaves the call
Returned(doc, changed) == [raised |-> FALSE, doc |-> doc, changed |-> changed]
Raised(doc) == [raised |-> TRUE, doc |-> doc, changed |-> FALSE]

\* the caller's doc object as the call leaves it: the sales_lead section is
\* written in place, and so is the old_data dict when doc already had one
\* (doc.get("old_data", {}) returns doc's own dict)
InPlace(doc, sl, old) ==
    LET written == Put(doc, "sales_lead", sl)
    IN  IF "old_data" \in DOMAIN doc THEN Put(written, "old_data", old) ELSE written

\* update_document returning a lead-less document with an empty history added
update_document_initializing(doc, audit_date, pair, new_note, base) ==
    Returned(Put(doc, "old_data", EmptyMap), FALSE)

update_document(doc, audit_date, pair, new_note, base) ==
    IF "sales_lead" \notin DOMAIN doc
    THEN Returned(doc, FALSE)
    ELSE
        LET w0 == [sl |-> doc["sales_lead"],
                   old |-> Get(doc, "old_data", EmptyMap),
                   changed |-> FALSE]
            w1 == UpdateStatusPipeline(w0, pair[1], pair[2], audit_date)
            w2 == UpdateNotes(w1, new_note, audit_date)
            w3 == UpdateScore(w2, base, pair[1], pair[2], audit_date)
        IN  IF UpdateFlagRaises(w3.sl)
            THEN Raised(InPlace(doc, w3.sl, w3.old))
            ELSE
                LET flagged == InPlace(doc, UpdateFlag(w3.sl), w3.old)
                IN  IF w3.changed
                    THEN Returned(Put(flagged, "old_data", w3.old), TRUE)
                    ELSE Returned(flagged, FALSE)

(***************************************************************************)
(* Lead creation: insert_sales_lead.py generate_random_record and          *)
(* streamlit_app.py create_new_lead_form.  Both build the document with no *)
(* "old_data" key.                                                         *)
(***************************************************************************)
\* the "sales_lead" section both creators build: the submitted or generated
\* values, the score and the flag derived from it
NewSalesLead(values, score) ==
    [f \in TrackedFields \cup {"high_priority_flag"} |->
        IF f = "lead_score" THEN score
        ELSE IF f = "high_priority_flag" THEN HighPriority(score)
        ELSE values[f]]

\* RequiredMissing looking at the company name alone
RequiredMissingCompanyOnly(form) == form["company_name"] = ""

\* not all([company_name, sales_contact_name, sales_contact_email])
RequiredMissing(form) ==
    \/ form["company_name"] = ""
    \/ form["sales_contact_name"] = ""
    \/ form["sales_contact_email"] = ""

\* insert_sales_lead.py lines 41-81
generate_random_record(lead_id, values, base) ==
    LET score == lead_score_weighted(base, values["last_deal_size_usd"],
                                     values["lead_status"],
                                     values["pipeline_stage"],
                                     values["crm_activity_flag"])
    IN  ("lead_id" :> lead_id) @@ ("sales_lead" :> NewSalesLead(values, score))

\* streamlit_app.py lines 1152-1186
create_new_lead_form(lead_id, form, base) ==
    LET lead_score == lead_score_weighted(base, form["last_deal_size_usd"],
                                          form["lead_status"],
                                          form["pipeline_stage"],
                                          form["crm_activity_flag"])
    IN  ("lead_id" :> lead_id) @@ ("sales_lead" :> NewSalesLead(form, lead_score))

(***************************************************************************)
(* streamlit_app.py: edit_lead_page.  The form is pre-populated from the   *)
(* lead read at the top of the run; on Save the submitted values are       *)
(* diffed against that lead and merged into it.                            *)
(***************************************************************************)
Today == "2025-03-31"

IsoDates == {"2025-01-15", "2025-02-20", Today}

\* lines 730-739, 905: strptime(..., "%Y-%m-%d") with the fallback to today,
\* then strftime("%Y-%m-%d") of the date widget's value
DateWidget(stored) == IF stored \in IsoDates THEN stored ELSE Today

\* lines 674-831: the value= of each widget
Prepopulate(sales_lead) ==
    [f \in FormFields |->
        CASE f = "company_name" -> Get(sales_lead, f, "")
          [] f = "primary_market_region" -> Get(sales_lead, f, MARKET_REGIONS[1])
          [] f = "market_cap_usd" -> Get(sales_lead, f, 0)
          [] f = "annual_sales_usd" -> Get(sales_lead, f, 0)
          [] f = "number_of_customers" -> Get(sales_lead, f, 0)
          [] f = "sales_contact_name" -> Get(sales_lead, f, "")
          [] f = "sales_contact_email" -> Get(sales_lead, f, "")
          [] f = "date_of_last_contact" -> DateWidget(Get(sales_lead, f, Today))
          [] f = "lead_source" -> Get(sales_lead, f, LEAD_SOURCES[1])
          [] f = "crm_activity_flag" -> Get(sales_lead, f, FALSE)
          [] f = "lead_status" -> Get(sales_lead, f, PROSPECT)
          [] f = "pipeline_stage" -> Get(sales_lead, f, DISCOVERY)
          [] f = "last_deal_size_usd" -> Get(sales_lead, f, 0)
          [] f = "notes" -> Get(sales_lead, f, "")
          [] f = "quarter" ->
                IF Get(sales_lead, f, "Q1 2025") \in QuarterOptions
                THEN Get(sales_lead, f, "Q1 2025") ELSE "Q1 2025"]

\* lines 878-925: fields_to_check, field -> (new_value, old_value); old_value
\* is sales_lead.get(field), None when the field is absent
fields_to_check(form, new_lead_score, sales_lead) ==
    [f \in TrackedFields |->
        [new_value |-> IF f = "lead_score" THEN new_lead_score ELSE form[f],
         present |-> f \in DOMAIN sales_lead,
         old_value |-> Get(sales_lead, f, None)]]

\* line 933: new_value != old_value (no widget returns None)
Differs(check) == ~check.present \/ check.new_value # check.old_value

\* the audit loop recording the new value where the old one belongs
AuditLoopNewValue(old_data, checks, audit_date) ==
    [f \in DOMAIN old_data \cup {g \in DOMAIN checks : Differs(checks[g])} |->
        IF f \in DOMAIN checks /\ Differs(checks[f])
        THEN AuditEntry(checks[f].new_value, audit_date)
        ELSE old_data[f]]

\* lines 932-939: the audit loop over fields_to_check
AuditLoop(old_data, checks, audit_date) ==
    [f \in DOMAIN old_data \cup {g \in DOMAIN checks : Differs(checks[g])} |->
        IF f \in DOMAIN checks /\ Differs(checks[f])
        THEN AuditEntry(checks[f].old_value, audit_date)
        ELSE old_data[f]]

\* MergeFields keeping the score the lead was read with
MergeFieldsStoredScore(sales_lead, checks, new_lead_score) ==
    [f \in DOMAIN sales_lead \cup TrackedFields \cup {"high_priority_flag"} |->
        IF f = "lead_score" THEN Get(sales_lead, f, new_lead_score)
        ELSE IF f \in TrackedFields THEN checks[f].new_value
        ELSE IF f = "high_priority_flag"
             THEN HighPriority(Get(sales_lead, "lead_score", new_lead_score))
        ELSE sales_lead[f]]

\* lines 950-978: every field takes its new value, and the flag follows the score
MergeFields(sales_lead, checks, new_lead_score) ==
    [f \in DOMAIN sales_lead \cup TrackedFields \cup {"high_priority_flag"} |->
        IF f \in TrackedFields THEN checks[f].new_value
        ELSE IF f = "high_priority_flag" THEN HighPriority(new_lead_score)
        ELSE sales_lead[f]]

\* lines 852-991: the Save branch.  rejected: a required field is empty;
\* otherwise changed and the document to upsert (when nothing changed, the
\* lead as read, with its old_data dict as the audit loop left it)
apply_edit(data, form, audit_date, base) ==
    IF RequiredMissing(form)
    THEN [rejected |-> TRUE, changed |-> FALSE, doc |-> data]
    ELSE
        LET sales_lead == Get(data, "sales_lead", EmptyMap)
            new_lead_score ==
                lead_score_weighted(base, form["last_deal_size_usd"],
                                    form["lead_status"], form["pipeline_stage"],
                                    form["crm_activity_flag"])
            checks == fields_to_check(form, new_lead_score, sales_lead)
            changed == \E f \in TrackedFields : Differs(checks[f])
            old_data == AuditLoop(Get(data, "old_data", EmptyMap), checks, audit_date)
        IN  IF changed
            THEN [rejected |-> FALSE, changed |-> TRUE,
                  doc |-> Put(Put(data, "sales_lead",
                                  MergeFields(sales_lead, checks, new_lead_score)),
                              "old_data", old_data)]
            ELSE [rejected |-> FALSE, changed |-> FALSE,
                  doc |-> IF "old_data" \in DOMAIN data
                          THEN Put(data, "old_data", old_data) ELSE data]

\* get_all_sales_leads, lines 299-310: the sort key reads
\* x["data"]["sales_lead"]["lead_score"] of every lead document
get_all_sales_leads_raises(docs) ==
    \E k \in DOMAIN docs :
        \/ "sales_lead" \notin DOMAIN docs[k]
        \/ "lead_score" \notin DOMAIN docs[k]["sales_lead"]

\* The display helpers take the score as Python passes it: <<>> is None and
\* <<n>> the number n.
NoScore == <<>>

\* lines 520-521, 798: sales_lead.get("lead_score", 0) handed to the helpers
DisplayedScore(sales_lead) == <<Get(sales_lead, "lead_score", 0)>>

\* lines 220-232
format_lead_score(score) ==
    IF score = NoScore \/ score[1] < 0
    THEN "N/A"
    ELSE ToString(score[1]) \o "/100"

\* lines 235-252
get_priority_badge_class(score) ==
    IF score = NoScore \/ score[1] < 0 THEN "priority-badge-closed"
    ELSE IF score[1] >= 80 THEN "priority-badge-high"
    ELSE IF score[1] >= 50 THEN "priority-badge-medium"
    ELSE "priority-badge-low"

\* lines 255-272
get_priority_text(score) ==
    IF score = NoScore \/ score[1] < 0 THEN "CLOSED"
    ELSE IF score[1] >= 80 THEN "HIGH"
    ELSE IF score[1] >= 50 THEN "MEDIUM"
    ELSE "LOW"

\* lines 503-509: the "Closed Leads" view keeps the leads this holds of
closed_leads_filter(data) ==
    Get(Get(data, "sales_lead", EmptyMap), "lead_score", 0) < 0

(***************************************************************************)
(* app.py: generate_summary.  The request body is data; generation is what *)
(* the text model returned, already split into the summary and the         *)
(* sentences of the recommendation, or its failure; coll is the            *)
(* collection the handler reads.  A text is the list of its lines and a    *)
(* line the list of its pieces.                                            *)
(***************************************************************************)
\* lines 112-114: one "lead::" taken off a key that starts with "lead::lead::"
NormalizeKey(lead_id) ==
    IF Len(lead_id) >= 3 /\ lead_id[1] = "lead" /\ lead_id[2] = "lead"
    THEN Tail(lead_id) ELSE lead_id

\* lines 72-74: one "- " line per sentence
bullet_recommendation(sentences) ==
    [i \in DOMAIN sentences |-> <<"- ", sentences[i]>>]

\* lines 100-247: the response (status 400, 500 or 200 with the normalized
\* key) and merged_doc, the local the handler builds at lines 229-234 and
\* never passes to the collection
generate_summary(data, generation, coll) ==
    LET lead_id == Get(data, "lead_id", <<>>)
        sales_lead == Get(data, "sales_lead", EmptyMap)
    IN  IF lead_id = <<>> \/ DOMAIN sales_lead = {}
        THEN [status |-> 400, lead_id |-> lead_id, merged_doc |-> EmptyMap]
        ELSE IF generation.failed
        THEN [status |-> 500, lead_id |-> lead_id, merged_doc |-> EmptyMap]
        ELSE
            LET doc_key == NormalizeKey(lead_id)
                bullets == bullet_recommendation(generation.sentences)
                recommendation ==
                    IF Get(sales_lead, "high_priority_flag", FALSE)
                    THEN <<(<<"[ High-priority lead ]">>)>> \o bullets
                    ELSE bullets
                existing_doc == IF doc_key \in DOMAIN coll
                                THEN coll[doc_key] ELSE EmptyMap
            IN  [status |-> 200, lead_id |-> doc_key,
                 merged_doc |->
                     Put(Put(Put(existing_doc, "sales_lead", sales_lead),
                             "summary", generation.summary),
                         "recommendation", recommendation)]

(***************************************************************************)
(* Inputs of the system model: the identifiers, random draws and form      *)
(* entries the actions choose from.                                        *)
(***************************************************************************)
MaxClock == 2

Uuids == {"u1"}

\* the draws the system model takes of random.randint(20, 50), of
\* random.randint(25_000, 5_000_000), of random_lead_status_and_pipeline_stage
\* and of random_notes
BaseDraws == {BaseMin, BaseMax}

DealDraws == {25000}

PairDraws ==
    {<<PROSPECT, DISCOVERY>>, <<PROSPECT, PROPOSAL_SENT>>, <<WON, CLOSED_WON>>}

NoteDraws == {"Contacted client, awaiting response."}

\* what faker and the other generators of generate_random_record return
GeneratedValues ==
    [company_name |-> "Acme Inc.", quarter |-> "Q1 2025",
     market_cap_usd |-> 50000000, annual_sales_usd |-> 5000000,
     number_of_customers |-> 500, primary_market_region |-> MARKET_REGIONS[1],
     sales_contact_name |-> "Ann Lee", sales_contact_email |-> "ann@example.com",
     date_of_last_contact |-> "2025-01-15", lead_status |-> PROSPECT,
     pipeline_stage |-> DISCOVERY, last_deal_size_usd |-> 25000,
     lead_source |-> LEAD_SOURCES[1], notes |-> "A",
     crm_activity_flag |-> FALSE]

\* the widgets' values with some of them set by the user
Fill(form, entries) ==
    [f \in DOMAIN form |-> IF f \in DOMAIN entries THEN entries[f] ELSE form[f]]

\* the create form's defaults, lines 1036-1121
CreateDefaults ==
    [company_name |-> "", quarter |-> "Q1 2025", market_cap_usd |-> 0,
     annual_sales_usd |-> 0, number_of_customers |-> 0,
     primary_market_region |-> MARKET_REGIONS[1], sales_contact_name |-> "",
     sales_contact_email |-> "", date_of_last_contact |-> Today,
     lead_status |-> LEAD_STATUSES[1], pipeline_stage |-> PIPELINE_STAGES[1],
     last_deal_size_usd |-> 0, lead_source |-> LEAD_SOURCES[1], notes |-> "",
     crm_activity_flag |-> FALSE]

\* what a user types into the create form
CreateEntries ==
    {[company_name |-> "Acme Inc.", sales_contact_name |-> "Ann Lee",
      sales_contact_email |-> "ann@example.com", notes |-> "A"],
     [company_name |-> "Acme Inc.", sales_contact_name |-> "Ann Lee",
      sales_contact_email |-> "ann@example.com", notes |-> "A",
      lead_status |-> NEGOTIATION, pipeline_stage |-> NEGOTIATION,
      last_deal_size_usd |-> 5000000, crm_activity_flag |-> TRUE],
     [sales_contact_name |-> "Ann Lee", sales_contact_email |-> "ann@example.com"]}

\* what a user changes in the edit form before Save
EditEntries ==
    {EmptyMap,
     [notes |-> "B"], [notes |-> "C"],
     [company_name |-> ""],
     [last_deal_size_usd |-> 5000000, crm_activity_flag |-> TRUE],
     [lead_status |-> LOST, pipeline_stage |-> CLOSED_LOST]}

\* what the text model returns for a request, or its failure
Generations ==
    {[failed |-> FALSE, summary |-> "Acme Inc. is an early lead.",
      sentences |-> <<"Call Ann Lee this week.", "Send revised pricing.">>],
     [failed |-> TRUE, summary |-> "", sentences |-> <<>>]}

\* the lead_id a caller of /generate_summary sends for the document stored
\* under key: the key itself, or the key with "lead::" put in front once more
RequestLeadIds(key) == {key, <<"lead">> \o key}

(***************************************************************************)
(* The state machine                                                       *)
(***************************************************************************)
NoCall ==
    [op |-> "none", key |-> <<>>, arg |-> EmptyMap, argAfter |-> EmptyMap,
     out |-> EmptyMap, replaced |-> EmptyMap,
     form |-> EmptyMap, pair |-> <<>>, changed |-> FALSE, raised |-> FALSE,
     rejected |-> FALSE, now |-> 0]

Idle == [pc |-> "idle", id |-> <<>>, data |-> EmptyMap]

NoScoreIn == [deal |-> 0, status |-> None, stage |-> None, crm |-> FALSE]

NoScoreOut == [called |-> FALSE, base |-> 0, score |-> 0]

Init ==
    /\ store = EmptyMap
    /\ clock = 0
    /\ edit = Idle
    /\ job = Idle
    /\ res = NoCall
    /\ scoreIn = NoScoreIn
    /\ scoreOut = NoScoreOut

\* insert_sales_lead.py main, lines 90-97: one generated record inserted
\* under lead::<lead_id>
InsertRecord ==
    \E lead_id \in Uuids, pair \in PairDraws, deal \in DealDraws,
       crm \in {FALSE}, base \in BaseDraws :
        /\ DocKey(lead_id) \notin DOMAIN store
        /\ store' = Put(store, DocKey(lead_id),
                        generate_random_record(
                            lead_id,
                            Fill(GeneratedValues,
                                 [lead_status |-> pair[1], pipeline_stage |-> pair[2],
                                  last_deal_size_usd |-> deal,
                                  crm_activity_flag |-> crm]),
                            base))
        /\ UNCHANGED <<clock, edit, job, res, scoreIn, scoreOut>>

\* create_new_lead_form, lines 1142-1202: Create Lead submitted
CreateLead ==
    \E lead_id \in Uuids, entries \in CreateEntries, base \in BaseDraws :
        LET form == Fill(CreateDefaults, entries)
        IN  /\ DocKey(lead_id) \notin DOMAIN store
            /\ store' = IF RequiredMissing(form)
                        THEN store
                        ELSE Put(store, DocKey(lead_id),
                                 create_new_lead_form(lead_id, form, base))
            /\ UNCHANGED <<clock, edit, job, res, scoreIn, scoreOut>>

\* edit_lead_page, lines 629-648: the run reads the leads and finds the
\* selected one
EditRead ==
    \E k \in DOMAIN store :
        /\ edit.pc = "idle"
        /\ ~get_all_sales_leads_raises(store)
        /\ edit' = [pc |-> "loaded", id |-> k, data |-> store[k]]
        /\ UNCHANGED <<store, clock, job, res, scoreIn, scoreOut>>

\* edit_lead_page, lines 844-846: Cancel
EditCancel ==
    /\ edit.pc = "loaded"
    /\ edit' = Idle
    /\ UNCHANGED <<store, clock, job, res, scoreIn, scoreOut>>

\* the caller's lead object after the Save branch ran: the audit loop writes
\* into the old_data dict it got from the lead, and updated_doc is a shallow
\* copy whose "sales_lead" is the lead's own
EditArgAfter(data, r) ==
    IF ~r.changed THEN data
    ELSE LET nested == Put(data, "sales_lead", r.doc["sales_lead"])
         IN  IF "old_data" \in DOMAIN data
             THEN Put(nested, "old_data", r.doc["old_data"]) ELSE nested

\* edit_lead_page, lines 852-991: Save Changes submitted
EditSaveWith(entriesOf, bases) ==
    \E entries \in entriesOf, base \in bases :
        LET form == Fill(Prepopulate(edit.data["sales_lead"]), entries)
            r == apply_edit(edit.data, form, clock + 1, base)
        IN  /\ edit.pc = "loaded"
            /\ clock < MaxClock
            /\ clock' = IF r.rejected THEN clock ELSE clock + 1
            /\ store' = IF r.changed THEN upsert(store, edit.id, r.doc) ELSE store
            /\ res' = [op |-> "save", key |-> edit.id, arg |-> edit.data,
                       argAfter |-> EditArgAfter(edit.data, r), out |-> r.doc,
                       replaced |-> store[edit.id],
                       form |-> form, pair |-> <<>>,
                       changed |-> r.changed, raised |-> FALSE,
                       rejected |-> r.rejected, now |-> clock + 1]
            /\ edit' = Idle
            /\ UNCHANGED <<job, scoreIn, scoreOut>>

EditSave == EditSaveWith(EditEntries, BaseDraws)

\* update_sales_lead.py main, lines 99-103: the job reads one document
JobGet ==
    \E k \in DOMAIN store :
        /\ job.pc = "idle"
        /\ job' = [pc |-> "got", id |-> k, data |-> store[k]]
        /\ UNCHANGED <<store, clock, edit, res, scoreIn, scoreOut>>

\* update_sales_lead.py main, lines 105-109: update_document, and the upsert
\* when it reports a change; an exception other than DocumentNotFound ends
\* the job
JobUpdateWith(pairs, notes, bases) ==
    \E pair \in pairs, note \in notes, base \in bases :
        LET r == update_document(job.data, clock + 1, pair, note, base)
        IN  /\ job.pc = "got"
            /\ clock' = clock + 1
            /\ store' = IF r.changed THEN upsert(store, job.id, r.doc) ELSE store
            /\ res' = [op |-> "update", key |-> job.id, arg |-> job.data,
                       argAfter |-> r.doc, replaced |-> store[job.id],
                       out |-> r.doc, form |-> EmptyMap,
                       pair |-> IF "sales_lead" \in DOMAIN job.data
                                THEN pair ELSE <<>>,
                       changed |-> r.changed, raised |-> r.raised,
                       rejected |-> FALSE, now |-> clock + 1]
            /\ job' = Idle
            /\ UNCHANGED <<edit, scoreIn, scoreOut>>

JobUpdate ==
    /\ clock < MaxClock
    /\ JobUpdateWith(PairDraws, NoteDraws, BaseDraws)

Next ==
    \/ InsertRecord
    \/ CreateLead
    \/ EditRead
    \/ EditCancel
    \/ EditSave
    \/ JobGet
    \/ JobUpdate

Spec == Init /\ [][Next]_vars

(***************************************************************************)
(* The score engine on its own: the arguments are drawn at the start and   *)
(* lead_score_weighted is called on them, any number of times.             *)
(***************************************************************************)
ScoreDeals ==
    {0, 1, DealDivisor - 1, DealDivisor, 2500000, DealCap * DealDivisor - 1,
     DealCap * DealDivisor, 5000000, 9999999}

ScoreStatuses == Range(LEAD_STATUSES) \cup {None}

ScoreStages == Range(PIPELINE_STAGES) \cup {None}

InitScore ==
    /\ store = EmptyMap
    /\ clock = 0
    /\ edit = Idle
    /\ job = Idle
    /\ res = NoCall
    /\ scoreIn \in [deal : ScoreDeals, status : ScoreStatuses,
                    stage : ScoreStages, crm : BOOLEAN]
    /\ scoreOut = NoScoreOut

CallScore ==
    \E base \in BaseRange :
        /\ scoreOut' = [called |-> TRUE, base |-> base,
                        score |-> lead_score_weighted(base, scoreIn.deal,
                                                      scoreIn.status,
                                                      scoreIn.stage, scoreIn.crm)]
        /\ UNCHANGED <<store, clock, edit, job, res, scoreIn>>

NextScore == CallScore

SpecScore == InitScore /\ [][NextScore]_vars

(***************************************************************************)
(* update_document on its own: the job holds one document, any lead a      *)
(* creator builds, with or without the optional parts (the score and its   *)
(* flag, the old_data dict, the sales_lead section), and update_document   *)
(* runs on it once with any of its draws.                                  *)
(***************************************************************************)
Without(d, keys) == [x \in DOMAIN d \ keys |-> d[x]]

CreatedLeads ==
    {generate_random_record(
         "u1",
         Fill(GeneratedValues,
              [lead_status |-> pair[1], pipeline_stage |-> pair[2],
               last_deal_size_usd |-> deal, crm_activity_flag |-> crm]),
         base) :
        pair \in random_lead_status_and_pipeline_stage,
        deal \in {25000, 5000000}, crm \in BOOLEAN, base \in BaseDraws}

\* leads the create form built: its status and stage boxes are independent,
\* so the pair need not be one of the mapping
FormLeads ==
    {create_new_lead_form(
         "u1",
         Fill(CreateDefaults,
              [company_name |-> "Acme Inc.", sales_contact_name |-> "Ann Lee",
               sales_contact_email |-> "ann@example.com",
               lead_status |-> pair[1], pipeline_stage |-> pair[2]]),
         BaseMin) :
        pair \in {<<WON, DISCOVERY>>, <<PROSPECT, CLOSED_WON>>,
                  <<LOST, NEGOTIATION>>, <<NEGOTIATION, DISCOVERY>>}}

\* a lead stored before scoring: no lead_score, no high_priority_flag
Unscored(doc) ==
    Put(doc, "sales_lead",
        Without(doc["sales_lead"], {"lead_score", "high_priority_flag"}))

UpdateInputs ==
    CreatedLeads
    \cup FormLeads
    \cup {Put(d, "old_data", EmptyMap) : d \in CreatedLeads}
    \cup {Unscored(d) : d \in CreatedLeads}
    \cup {Without(d, {"sales_lead"}) : d \in CreatedLeads}

InitUpdate ==
    /\ \E d \in UpdateInputs :
          /\ store = Put(EmptyMap, DocKey("u1"), d)
          /\ job = [pc |-> "got", id |-> DocKey("u1"), data |-> d]
    /\ clock = 0
    /\ edit = Idle
    /\ res = NoCall
    /\ scoreIn = NoScoreIn
    /\ scoreOut = NoScoreOut

UpdateOnce == JobUpdateWith(random_lead_status_and_pipeline_stage, random_notes,
                            BaseDraws)

NextUpdate == UpdateOnce

SpecUpdate == InitUpdate /\ [][NextUpdate]_vars

(***************************************************************************)
(* The service with two leads stored: u1 as insert_sales_lead.py generated *)
(* it, u2 as the create form built it.  The edit page, the refresh job and *)
(* /generate_summary run against them in any order.                        *)
(***************************************************************************)
ServiceLeads ==
    (DocKey("u1") :> generate_random_record("u1", GeneratedValues, BaseMin))
    @@ (DocKey("u2") :>
            create_new_lead_form(
                "u2",
                Fill(CreateDefaults,
                     [company_name |-> "Bolt Ltd.", sales_contact_name |-> "Raj Rao",
                      sales_contact_email |-> "raj@example.com",
                      lead_status |-> NEGOTIATION, pipeline_stage |-> NEGOTIATION,
                      last_deal_size_usd |-> 5000000, crm_activity_flag |-> TRUE]),
                BaseMax))

ServiceEntries == {[notes |-> "B"], [lead_status |-> LOST, pipeline_stage |-> CLOSED_LOST]}

ServicePairs == {<<PROSPECT, PROPOSAL_SENT>>, <<WON, CLOSED_WON>>}

InitService ==
    /\ store = ServiceLeads
    /\ clock = 0
    /\ edit = Idle
    /\ job = Idle
    /\ res = NoCall
    /\ scoreIn = NoScoreIn
    /\ scoreOut = NoScoreOut

ServiceSave == EditSaveWith(ServiceEntries, {BaseMin})

ServiceUpdate ==
    /\ clock < MaxClock
    /\ JobUpdateWith(ServicePairs, NoteDraws, {BaseMin})

\* app.py, POST /generate_summary: the caller sends lead_id with the
\* sales_lead and old_data of the document stored under k
GenerateSummaryFor(k, lead_id, generation) ==
    LET data == [lead_id |-> lead_id,
                 sales_lead |-> store[k]["sales_lead"],
                 old_data |-> Get(store[k], "old_data", EmptyMap)]
        r == generate_summary(data, generation, store)
    IN  /\ res' = [op |-> "summary", key |-> r.lead_id, arg |-> data,
                   argAfter |-> data, out |-> r.merged_doc,
                   replaced |-> EmptyMap,
                   form |-> EmptyMap, pair |-> <<>>, changed |-> FALSE,
                   raised |-> r.status = 500,
                   rejected |-> r.status = 400, now |-> clock]
        /\ UNCHANGED <<store, clock, edit, job, scoreIn, scoreOut>>

GenerateSummary ==
    \E k \in DOMAIN store, generation \in Generations :
        \E lead_id \in RequestLeadIds(k) :
            GenerateSummaryFor(k, lead_id, generation)

NextService ==
    \/ EditRead
    \/ EditCancel
    \/ ServiceSave
    \/ JobGet
    \/ ServiceUpdate
    \/ GenerateSummary

SpecService == InitService /\ [][NextService]_vars

(***************************************************************************)
(* /generate_summary on its own: two leads are stored and one request      *)
(* arrives, its lead_id any key of up to MaxKeyParts "::"-separated parts. *)
(***************************************************************************)
MaxKeyParts == 4

KeyInputs == UNION {[1..n -> {"lead", "u1", "u2"}] : n \in 1..MaxKeyParts}

SummaryRequest ==
    \E k \in DOMAIN store, generation \in Generations, lead_id \in KeyInputs :
        GenerateSummaryFor(k, lead_id, generation)

NextSummary == SummaryRequest

SpecSummary == InitService /\ [][NextSummary]_vars

(***************************************************************************)
(* The edit page's Save with each required field left empty, alone, with   *)
(* other fields changed and all three at once, beside complete forms and   *)
(* the refresh job, over the two stored leads.                             *)
(***************************************************************************)
SaveEntries ==
    ServiceEntries
    \cup {[company_name |-> ""],
          [sales_contact_name |-> "", notes |-> "B"],
          [sales_contact_email |-> "", lead_status |-> LOST,
           pipeline_stage |-> CLOSED_LOST],
          [company_name |-> "", sales_contact_name |-> "",
           sales_contact_email |-> ""]}

SaveSubmitted == EditSaveWith(SaveEntries, {BaseMin})

NextSave ==
    \/ EditRead
    \/ EditCancel
    \/ SaveSubmitted
    \/ JobGet
    \/ ServiceUpdate

SpecSave == InitService /\ [][NextSave]_vars

(***************************************************************************)
(* update_sales_lead.py main as a whole: the query lists the ids of the    *)
(* bucket, the loop gets each document, runs update_document on it, writes *)
(* it back when it reports a change and counts; the job is started again   *)
(* after it ended.  job carries the rows still to visit, which the query   *)
(* lists in any order, the two counters and, for the properties, the calls *)
(* of upsert and the returns with changed = true of this run.              *)
(***************************************************************************)
MaxRuns == 2

\* the bucket: a generated lead, a form-created lead, and a third document
\* that is a lead without score or a document without a sales_lead section
JobStores ==
    {ServiceLeads @@ (DocKey("u3") :> d) :
        d \in {Without(generate_random_record("u3", GeneratedValues, BaseMin),
                       {"sales_lead"}),
               Unscored(generate_random_record("u3", GeneratedValues, BaseMin))}}

\* an id the query listed whose document is gone at the get
GoneKey == DocKey("u4")

JobStart == [pc |-> "start", id |-> <<>>, data |-> EmptyMap, rows |-> {},
             run |-> 0, total |-> 0, updated |-> 0, upserts |-> 0,
             changes |-> 0]

InitJob ==
    /\ store \in JobStores
    /\ clock = 0
    /\ edit = Idle
    /\ job = JobStart
    /\ res = NoCall
    /\ scoreIn = NoScoreIn
    /\ scoreOut = NoScoreOut

\* lines 93-97: the query, total = 0, updated = 0
MainQuery ==
    \E rows \in {DOMAIN store, DOMAIN store \cup {GoneKey}} :
        /\ job.pc \in {"start", "done"}
        /\ job.run < MaxRuns
        /\ job' = [pc |-> "loop", id |-> <<>>, data |-> EmptyMap,
                   rows |-> rows, run |-> job.run + 1, total |-> 0,
                   updated |-> 0, upserts |-> 0, changes |-> 0]
        /\ UNCHANGED <<store, clock, edit, res, scoreIn, scoreOut>>

\* lines 99-103, 111-112: the next row is read; DocumentNotFoundException
\* skips it
MainGet ==
    \E doc_id \in job.rows :
        /\ job.pc = "loop"
        /\ job' = IF doc_id \in DOMAIN store
                  THEN [job EXCEPT !.pc = "got", !.id = doc_id,
                                   !.data = store[doc_id],
                                   !.rows = @ \ {doc_id}]
                  ELSE [job EXCEPT !.rows = @ \ {doc_id}]
        /\ UNCHANGED <<store, clock, edit, res, scoreIn, scoreOut>>

\* line 106: if changed
WritesBackAlways(changed) == TRUE

WritesBack(changed) == changed

\* lines 105-109: update_document, the upsert and the counters; an exception
\* of update_document leaves main
MainUpdate ==
    \E pair \in {<<PROSPECT, DISCOVERY>>, <<WON, CLOSED_WON>>},
       note \in NoteDraws, base \in {BaseMin} :
        LET r == update_document(job.data, clock + 1, pair, note, base)
            written == ~r.raised /\ WritesBack(r.changed)
        IN  /\ job.pc = "got"
            /\ clock' = clock + 1
            /\ store' = IF written THEN upsert(store, job.id, r.doc) ELSE store
            /\ res' = [op |-> "update", key |-> job.id, arg |-> job.data,
                       argAfter |-> r.doc, replaced |-> store[job.id],
                       out |-> r.doc, form |-> EmptyMap,
                       pair |-> IF "sales_lead" \in DOMAIN job.data
                                THEN pair ELSE <<>>,
                       changed |-> r.changed, raised |-> r.raised,
                       rejected |-> FALSE, now |-> clock + 1]
            /\ job' = IF r.raised
                      THEN [job EXCEPT !.pc = "raised"]
                      ELSE [job EXCEPT
                               !.pc = "loop",
                               !.updated = IF written THEN @ + 1 ELSE @,
                               !.total = @ + 1,
                               !.upserts = IF written THEN @ + 1 ELSE @,
                               !.changes = IF r.changed THEN @ + 1 ELSE @]
            /\ UNCHANGED <<edit, scoreIn, scoreOut>>

\* lines 114-115: the loop ended, the counters are printed
MainPrint ==
    /\ job.pc = "loop"
    /\ job.rows = {}
    /\ job' = [job EXCEPT !.pc = "done"]
    /\ UNCHANGED <<store, clock, edit, res, scoreIn, scoreOut>>

NextJob ==
    \/ MainQuery
    \/ MainGet
    \/ MainUpdate
    \/ MainPrint

SpecJob == InitJob /\ [][NextJob]_vars

(***************************************************************************)
(* Properties                                                              *)
(***************************************************************************)
ScoreCallTotal ==
    TruncDiv(RunningTotalNum(scoreOut.base, scoreIn.deal, scoreIn.status,
                             scoreIn.stage, scoreIn.crm))

\* C1: for every deal size >= 0, status, stage (absent ones included), CRM
\* flag and base draw in [20, 50], lead_score_weighted returns an integer in
\* [0, 100]; a running total outside the range is clamped.
ScoreInRange == scoreOut.called => scoreOut.score \in ScoreMin..ScoreMax

\* a call whose running total exceeds 100 and comes back as 100
ScoreClampedWitness ==
    /\ scoreOut.called
    /\ scoreIn.status \notin {WON, LOST}
    /\ ScoreCallTotal > ScoreMax
    /\ scoreOut.score = ScoreMax

\* C2: whenever status is Won or Lost, lead_score_weighted returns exactly 0,
\* whatever the deal size, stage, CRM flag and base draw.
WonLostScoreZero ==
    (scoreOut.called /\ scoreIn.status \in {WON, LOST}) => scoreOut.score = 0

\* a Lost lead with the largest deal, an active CRM and the best stage scored 0
LostScoreZeroWitness ==
    /\ scoreOut.called
    /\ scoreIn.status = LOST
    /\ scoreIn.deal = 5000000
    /\ scoreIn.stage = CLOSED_WON
    /\ scoreIn.crm
    /\ scoreOut.base = BaseMax
    /\ scoreOut.score = 0

FlagMatchesScore(doc) ==
    doc["sales_lead"]["high_priority_flag"]
        = (doc["sales_lead"]["lead_score"] >= HighPriorityMin)

\* C3: in every lead record produced by the Save branch of edit_lead_page, by
\* update_document and by lead creation, high_priority_flag equals
\* (lead_score >= 80), after any sequence of creations and edits.
FlagFollowsScore ==
    /\ \A k \in DOMAIN store : FlagMatchesScore(store[k])
    /\ (res.op \in {"save", "update"} /\ ~res.raised) => FlagMatchesScore(res.out)

\* update_document took a high-priority lead below 80 and cleared its flag
FlagClearedWitness ==
    /\ res.op = "update"
    /\ res.changed
    /\ res.arg["sales_lead"]["high_priority_flag"]
    /\ res.out["sales_lead"]["lead_score"] < HighPriorityMin
    /\ ~res.out["sales_lead"]["high_priority_flag"]

\* C4: a no-op edit is idempotent: Save with every proposed value equal to the
\* lead's current value reports changed = false and leaves lead and history
\* as they were.
NoOpEditIdempotent ==
    (/\ res.op = "save"
     /\ ~res.rejected
     /\ res.form = Prepopulate(res.arg["sales_lead"])
     /\ \A f \in FormFields : res.form[f] = res.arg["sales_lead"][f])
        => (~res.changed /\ res.out = res.arg)

History(doc) == Get(doc, "old_data", EmptyMap)

EditReturned == res.op \in {"save", "update"} /\ ~res.raised /\ ~res.rejected

\* C5: every history entry history[f] holds the value f had immediately before
\* the most recent edit that changed f, dated with the time of that edit: an
\* edit that changes f sets history[f] to {old value, now}, and an edit that
\* does not change f leaves history[f] as it was.
HistoryHoldsPriorValue ==
    EditReturned =>
        \A f \in DOMAIN History(res.out) :
            IF res.out["sales_lead"][f] # res.arg["sales_lead"][f]
            THEN History(res.out)[f]
                     = AuditEntry(res.arg["sales_lead"][f], res.now)
            ELSE /\ f \in DOMAIN History(res.arg)
                 /\ History(res.out)[f] = History(res.arg)[f]

\* C6: lead_score_weighted is deterministic: two calls with the same
\* (deal_size, status, stage, crm_active) return the same score.
ScoreDeterministic ==
    [][(scoreOut.called /\ scoreOut'.called /\ scoreIn' = scoreIn)
          => scoreOut'.score = scoreOut.score]_vars

\* C7: monotonicity in deal size: for fixed base, status, stage and CRM flag
\* and deal sizes 0 <= d1 <= d2, the score at d1 is at most the score at d2.
ScoreMonotoneInDeal ==
    scoreOut.called =>
        \A d2 \in ScoreDeals :
            scoreIn.deal <= d2 =>
                scoreOut.score <= lead_score_weighted(scoreOut.base, d2,
                                                      scoreIn.status,
                                                      scoreIn.stage, scoreIn.crm)

\* one dollar more, from 166665 to 166666, raised the score by one
DealRaisesScoreWitness ==
    /\ scoreOut.called
    /\ scoreIn.status = PROSPECT
    /\ scoreIn.deal = DealDivisor - 1
    /\ lead_score_weighted(scoreOut.base, DealDivisor, scoreIn.status,
                           scoreIn.stage, scoreIn.crm) = scoreOut.score + 1

\* C8: a field name is a key of the audit history only if that field's value
\* changed in some edit: a created lead has no history, and no edit writes an
\* entry for a field whose proposed value equals its current value.
HistoryKeysOnlyChanged ==
    /\ (res.op = "none") => \A k \in DOMAIN store : History(store[k]) = EmptyMap
    /\ EditReturned =>
          \A f \in DOMAIN History(res.out) :
              (f \notin DOMAIN History(res.arg)
                  \/ History(res.out)[f] # History(res.arg)[f])
                 => res.out["sales_lead"][f] # res.arg["sales_lead"][f]

\* C9: whenever an edit (Save, or update_document) reports changed = false,
\* the lead it returns equals the lead it was given in every field, lead_score
\* and high_priority_flag included, and the history is the one passed in.
UnchangedReturnsInput ==
    (EditReturned /\ ~res.changed) => res.out = res.arg

\* update_document drew the stored pair, note and score of a lead that
\* already had a history, and reported no change
UnchangedUpdateWitness ==
    /\ res.op = "update"
    /\ ~res.raised
    /\ ~res.changed
    /\ "old_data" \in DOMAIN res.arg
    /\ res.arg["sales_lead"]["lead_status"] = PROSPECT

\* C10: the audit diff/merge engine never fails on a well-formed lead, a record
\* without lead_score or old_data included: update_document returns a result
\* and raises no exception.
UpdateNeverRaises == (res.op = "update") => ~res.raised

\* the valid (status, stage) table: Prospect or Qualified with Discovery,
\* Proposal Sent, Contract Sent or Negotiation; Negotiation with Proposal
\* Sent, Contract Sent or Negotiation; Won with Closed Won; Lost with Closed
\* Lost
ValidPairTable ==
    {<<PROSPECT, DISCOVERY>>, <<PROSPECT, PROPOSAL_SENT>>,
     <<PROSPECT, CONTRACT_SENT>>, <<PROSPECT, NEGOTIATION>>,
     <<QUALIFIED, DISCOVERY>>, <<QUALIFIED, PROPOSAL_SENT>>,
     <<QUALIFIED, CONTRACT_SENT>>, <<QUALIFIED, NEGOTIATION>>,
     <<NEGOTIATION, PROPOSAL_SENT>>, <<NEGOTIATION, CONTRACT_SENT>>,
     <<NEGOTIATION, NEGOTIATION>>,
     <<WON, CLOSED_WON>>, <<LOST, CLOSED_LOST>>}

\* C11: every (status, stage) pair random_lead_status_and_pipeline_stage
\* returns is one of the 13 pairs of the fixed table, and every one of the 13
\* is among the choices it draws from.
DrawnPairInTable ==
    /\ (res.op = "update" /\ res.pair # <<>>) => res.pair \in ValidPairTable
    /\ ValidPairTable \subseteq random_lead_status_and_pipeline_stage
    /\ Cardinality(ValidPairTable) = 13

\* update_document drew (Negotiation, Negotiation), the pair whose status and
\* stage share a name
NegotiationPairDrawnWitness ==
    /\ res.op = "update"
    /\ res.pair = <<NEGOTIATION, NEGOTIATION>>

\* C12: the edit engine is side-effect-free: the Save branch of edit_lead_page
\* and update_document leave the lead record and the history map they were
\* given as they were; the caller's input is the same before and after the
\* call.
InputUntouched ==
    (res.op \in {"save", "update"} /\ ~res.rejected) => res.argAfter = res.arg

\* C13: a lead's identity is immutable after creation: no Save, refresh or
\* summary generation adds or removes a document key or changes a stored
\* lead_id, and a step that changes the document under a key is the Save or
\* the refresh of the run that read that key, writing the lead_id it read.
IdentityImmutable ==
    [][/\ DOMAIN store' = DOMAIN store
       /\ \A k \in DOMAIN store :
             /\ store'[k]["lead_id"] = store[k]["lead_id"]
             /\ store'[k] # store[k] =>
                   \/ /\ res'.op = "save"
                      /\ edit.id = k
                      /\ edit.data["lead_id"] = store'[k]["lead_id"]
                   \/ /\ res'.op = "update"
                      /\ job.id = k
                      /\ job.data["lead_id"] = store'[k]["lead_id"]]_vars

\* lead u2 was saved from the edit page after lead u1 had been refreshed:
\* both keys are still there and each document holds its own lead_id
SavedBesideRefreshedWitness ==
    /\ res.op = "save"
    /\ res.changed
    /\ res.key = DocKey("u2")
    /\ store[DocKey("u2")] = res.out
    /\ store[DocKey("u2")]["lead_id"] = "u2"
    /\ "old_data" \in DOMAIN store[DocKey("u1")]
    /\ store[DocKey("u1")]["lead_id"] = "u1"

\* C14: after a successful generate_summary for a lead, the stored lead
\* document holds the generated summary and recommendation, and its audit
\* history (old_data) is exactly what it was before the call.
SummaryStored ==
    (res.op = "summary" /\ ~res.raised /\ ~res.rejected) =>
        /\ res.key \in DOMAIN store
        /\ "summary" \in DOMAIN store[res.key]
        /\ store[res.key]["summary"] = res.out["summary"]
        /\ "recommendation" \in DOMAIN store[res.key]
        /\ store[res.key]["recommendation"] = res.out["recommendation"]
        /\ History(store[res.key]) = History(res.arg)

\* the status and stage contributions as the tables S and P give them
RefStatusPoints(status) ==
    CASE status = NEGOTIATION -> 15
      [] status = QUALIFIED -> 10
      [] status = PROSPECT -> 5
      [] OTHER -> 0

RefStagePoints(stage) ==
    CASE stage = CLOSED_WON -> 25
      [] stage = CONTRACT_SENT -> 15
      [] stage = NEGOTIATION -> 20
      [] stage = PROPOSAL_SENT -> 10
      [] stage = DISCOVERY -> 5
      [] stage = CLOSED_LOST -> -10
      [] OTHER -> 0

\* clamp_0_100(trunc(base + min(deal_size / 166666, 30) + S + P + crm)): the
\* other terms are whole and their sum is positive, so the truncation takes
\* the whole part of the deal term
RefScore(base, deal_size, status, stage, crm_active) ==
    LET dealPart == IF deal_size >= 30 * 166666 THEN 30 ELSE deal_size \div 166666
        total == base + dealPart + RefStatusPoints(status) + RefStagePoints(stage)
                 + (IF crm_active THEN 10 ELSE 0)
    IN  IF total < 0 THEN 0 ELSE IF total > 100 THEN 100 ELSE total

\* C15: for a status other than Won and Lost, lead_score_weighted equals the
\* reference formula with S = {Negotiation 15, Qualified 10, Prospect 5,
\* absent 0} and P = {Closed Won 25, Contract Sent 15, Negotiation 20,
\* Proposal Sent 10, Discovery 5, Closed Lost -10, absent 0}; base 20, deal
\* 5,000,000, Negotiation, Negotiation, CRM active gives 95.
ScoreMatchesReference ==
    /\ (scoreOut.called /\ scoreIn.status \notin {WON, LOST}) =>
          scoreOut.score = RefScore(scoreOut.base, scoreIn.deal, scoreIn.status,
                                    scoreIn.stage, scoreIn.crm)
    /\ lead_score_weighted(20, 5000000, NEGOTIATION, NEGOTIATION, TRUE) = 95

\* the worked example: base 20 drawn for a 5,000,000 deal in Negotiation /
\* Negotiation with CRM activity, scored 95
ScoreExample95Witness ==
    /\ scoreOut.called
    /\ scoreOut.base = 20
    /\ scoreIn = [deal |-> 5000000, status |-> NEGOTIATION,
                  stage |-> NEGOTIATION, crm |-> TRUE]
    /\ scoreOut.score = 95

\* an edit that returned and reported a change recorded, for every field of
\* fields whose value it changed, the value before and the time of the call
AuditCompleteOn(fields) ==
    (EditReturned /\ res.changed) =>
        \A f \in fields :
            res.out["sales_lead"][f] # res.arg["sales_lead"][f] =>
                /\ f \in DOMAIN History(res.out)
                /\ History(res.out)[f]
                       = AuditEntry(res.arg["sales_lead"][f], res.now)

\* C16 as stated: audit completeness for every mutable lead attribute, the
\* derived high_priority_flag among them: an edit that changes f from v at
\* time now leaves history[f] = {old_value: v, audit_date: now}.
AuditCompleteAllAttributes ==
    AuditCompleteOn(TrackedFields \cup {"high_priority_flag"})

\* C16 amended: audit completeness for every tracked field (the fifteen form
\* fields and lead_score): an edit that changes f from v at time now leaves
\* history[f] = {old_value: v, audit_date: now}; high_priority_flag is
\* recomputed from the score and gets no entry of its own.
AuditCompleteTracked == AuditCompleteOn(TrackedFields)

\* a Save raised the deal size and the score with it, and the history holds
\* the deal size and the score the lead had before
DealEditAuditedWitness ==
    /\ res.op = "save"
    /\ res.changed
    /\ res.arg["sales_lead"]["last_deal_size_usd"] = 25000
    /\ res.out["sales_lead"]["last_deal_size_usd"] = 5000000
    /\ History(res.out)["last_deal_size_usd"] = AuditEntry(25000, res.now)
    /\ res.out["sales_lead"]["lead_score"] > res.arg["sales_lead"]["lead_score"]
    /\ History(res.out)["lead_score"]
           = AuditEntry(res.arg["sales_lead"]["lead_score"], res.now)

\* the scores lead_score_weighted can return for the submitted form
FreshScores(form) ==
    {lead_score_weighted(base, form["last_deal_size_usd"], form["lead_status"],
                         form["pipeline_stage"], form["crm_activity_flag"]) :
        base \in BaseRange}

\* C17: when Save reports changed = true, the updated lead holds the proposed
\* value of every tracked field, not only of those that differed, lead_score
\* holds the score computed from the proposed values, and the updated
\* history is attached to the updated lead, which is the document stored.
ChangedSaveHoldsProposed ==
    (res.op = "save" /\ res.changed) =>
        /\ \A f \in FormFields : res.out["sales_lead"][f] = res.form[f]
        /\ res.out["sales_lead"]["lead_score"] \in FreshScores(res.form)
        /\ "old_data" \in DOMAIN res.out
        /\ DOMAIN History(res.arg) \subseteq DOMAIN res.out["old_data"]
        /\ \A f \in TrackedFields :
              res.out["sales_lead"][f] # res.arg["sales_lead"][f]
                  => f \in DOMAIN res.out["old_data"]
        /\ store[res.key] = res.out

\* a Save that closed the lead as Lost: the fields left alone hold the
\* submitted values, the score is the 0 a Lost lead gets and the history is
\* on the stored document
LostSaveMergedWitness ==
    /\ res.op = "save"
    /\ res.changed
    /\ res.form["lead_status"] = LOST
    /\ res.arg["sales_lead"]["lead_status"] = PROSPECT
    /\ res.out["sales_lead"]["company_name"] = res.form["company_name"]
    /\ res.out["sales_lead"]["notes"] = res.arg["sales_lead"]["notes"]
    /\ res.out["sales_lead"]["lead_score"] = 0
    /\ "lead_status" \in DOMAIN store[res.key]["old_data"]

\* C18: history entries are never removed or altered except by a change of
\* their own field: an edit leaves history[g] as it was for every field g
\* whose value did not differ in that edit, no edit or refresh drops a
\* history key, and the document a summary generation builds carries the
\* stored history.
HistoryKeptForUnchangedFields ==
    /\ EditReturned =>
          /\ \A g \in TrackedFields :
                res.out["sales_lead"][g] = res.arg["sales_lead"][g] =>
                    /\ (g \in DOMAIN History(res.out)) = (g \in DOMAIN History(res.arg))
                    /\ g \in DOMAIN History(res.arg) =>
                          History(res.out)[g] = History(res.arg)[g]
          /\ DOMAIN History(res.arg) \subseteq DOMAIN History(res.out)
    /\ (res.op = "summary" /\ ~res.raised /\ ~res.rejected) =>
          History(res.out) = History(res.arg)

ClosedScoresZero(doc) ==
    doc["sales_lead"]["lead_status"] \in {WON, LOST}
        => doc["sales_lead"]["lead_score"] = 0

\* C19: the stored score is never stale relative to the stored status: in
\* every lead written by creation, by Save or by update_document, after any
\* sequence of them, lead_status in {Won, Lost} implies lead_score = 0.
ClosedLeadScoresZero ==
    /\ \A k \in DOMAIN store : ClosedScoresZero(store[k])
    /\ EditReturned => ClosedScoresZero(res.out)

\* a stored lead that scored above 0 before it was closed as Won or Lost and
\* holds 0 now
ClosedAfterScoredWitness ==
    \E k \in DOMAIN store :
        /\ store[k]["sales_lead"]["lead_status"] \in {WON, LOST}
        /\ store[k]["sales_lead"]["lead_score"] = 0
        /\ "lead_score" \in DOMAIN History(store[k])
        /\ History(store[k])["lead_score"].old_value > 0
        /\ "lead_status" \in DOMAIN History(store[k])

StoredPair(doc) ==
    <<doc["sales_lead"]["lead_status"], doc["sales_lead"]["pipeline_stage"]>>

\* C20: the scoring/generation logic only produces valid (status, stage)
\* pairs: after update_document has processed a document that has a
\* sales_lead section, whatever pair it held before, and in every record
\* generate_random_record builds, (lead_status, pipeline_stage) is a member
\* of the valid-pair table.
UpdatedPairValid ==
    /\ (res.op = "update" /\ "sales_lead" \in DOMAIN res.arg) =>
          StoredPair(res.argAfter) \in ValidPairTable
    /\ (res.op = "update" /\ res.changed) =>
          StoredPair(store[res.key]) \in ValidPairTable
    /\ \A d \in CreatedLeads : StoredPair(d) \in ValidPairTable

\* a lead the form created as (Won, Discovery) came out of update_document
\* with the drawn pair (Qualified, Contract Sent)
InvalidPairRepairedWitness ==
    /\ res.op = "update"
    /\ "sales_lead" \in DOMAIN res.arg
    /\ StoredPair(res.arg) = <<WON, DISCOVERY>>
    /\ StoredPair(res.out) = <<QUALIFIED, CONTRACT_SENT>>
    /\ StoredPair(store[res.key]) = <<QUALIFIED, CONTRACT_SENT>>

\* a document with the audit_date of every history entry left out
WithoutAuditDates(doc) ==
    IF "old_data" \in DOMAIN doc
    THEN Put(doc, "old_data",
             [f \in DOMAIN doc["old_data"] |-> doc["old_data"][f].old_value])
    ELSE doc

\* C21: re-running the identical edit (same current lead, same proposed
\* values, a change detected in field f) at a later time t2 yields history[f]
\* with the same old_value and audit_date t2; apart from audit_date the two
\* results are equal.
RerunDiffersOnlyInAuditDate ==
    (res.op = "save" /\ res.changed) =>
        \A base \in BaseDraws :
            LET t2 == res.now + 1
                again == apply_edit(res.arg, res.form, t2, base)
            IN  /\ again.changed
                /\ WithoutAuditDates(again.doc) = WithoutAuditDates(res.out)
                /\ \A f \in FormFields :
                      res.form[f] # res.arg["sales_lead"][f] =>
                          /\ History(again.doc)[f].old_value
                                 = History(res.out)[f].old_value
                          /\ History(again.doc)[f].audit_date = t2

\* C22: deal-size saturation: the deal-size contribution is never more than
\* 30 points, and for fixed base, status, stage and CRM flag every deal size
\* >= 5,000,000 yields the same score as deal size 5,000,000.
DealSaturatesAtFiveMillion ==
    scoreOut.called =>
        /\ DealScoreNum(scoreIn.deal) <= 30 * DealDivisor
        /\ scoreIn.deal >= 5000000 =>
              scoreOut.score = lead_score_weighted(scoreOut.base, 5000000,
                                                   scoreIn.status, scoreIn.stage,
                                                   scoreIn.crm)

\* a 9,999,999 deal of a Prospect in Discovery scored 60 on base 20, below
\* the clamp, as a 5,000,000 deal does
SaturatedDealWitness ==
    /\ scoreOut.called
    /\ scoreOut.base = 20
    /\ scoreIn = [deal |-> 9999999, status |-> PROSPECT, stage |-> DISCOVERY,
                  crm |-> FALSE]
    /\ scoreOut.score = 60
    /\ lead_score_weighted(20, 5000000, PROSPECT, DISCOVERY, FALSE) = 60

\* C23: concurrent edits of one lead are not reconciled: when a Save or a
\* refresh writes a lead, the store holds exactly the record that writer
\* built from the version it read, whatever another writer stored under the
\* key in between; that writer's field changes and history entries are gone
\* and nothing is detected, retried or merged.
SecondWriterWins ==
    (res.op \in {"save", "update"} /\ res.changed) =>
        /\ store[res.key] = res.out
        /\ \A f \in DOMAIN History(res.replaced) :
              f \in DOMAIN History(store[res.key]) =>
                  \/ History(store[res.key])[f].audit_date = res.now
                  \/ /\ f \in DOMAIN History(res.arg)
                     /\ History(store[res.key])[f] = History(res.arg)[f]
        /\ \A f \in FormFields :
              \/ store[res.key]["sales_lead"][f] = res.arg["sales_lead"][f]
              \/ /\ f \in DOMAIN History(store[res.key])
                 /\ History(store[res.key])[f].audit_date = res.now

\* the edit page and the job read the lead as created; the job wrote a new
\* stage and note first; the Save then closed the lead as Lost from its own
\* read: the stored note is the old one again and the job's history entry
\* for notes is gone
LostRefreshWitness ==
    /\ res.op = "save"
    /\ res.changed
    /\ "old_data" \notin DOMAIN res.arg
    /\ "notes" \in DOMAIN History(res.replaced)
    /\ res.replaced["sales_lead"]["notes"] # res.arg["sales_lead"]["notes"]
    /\ store[res.key]["sales_lead"]["notes"] = res.arg["sales_lead"]["notes"]
    /\ store[res.key]["sales_lead"]["lead_status"] = LOST
    /\ "notes" \notin DOMAIN History(store[res.key])

\* the key starts with "lead::lead::"
HasDoublePrefix(key) == Len(key) >= 3 /\ key[1] = "lead" /\ key[2] = "lead"

\* C24: generate_summary normalizes the document key: for every lead_id the
\* key it returns as lead_id never starts with "lead::lead::", and a lead_id
\* that does not start with "lead::lead::" is returned unchanged.
ReturnedKeyNormalized ==
    (res.op = "summary" /\ ~res.raised /\ ~res.rejected) =>
        /\ ~HasDoublePrefix(res.key)
        /\ ~HasDoublePrefix(res.arg["lead_id"]) => res.key = res.arg["lead_id"]

\* C25: for every deal size >= 0, base draw in [20, 50], stage and CRM flag
\* and every status other than Won and Lost, an absent one included,
\* lead_score_weighted returns at least 10; so it returns 0 exactly when the
\* status is Won or Lost.
OpenLeadScoresAtLeastTen ==
    scoreOut.called =>
        /\ scoreIn.status \notin {WON, LOST} => scoreOut.score >= 10
        /\ (scoreOut.score = 0) = (scoreIn.status \in {WON, LOST})

\* the lowest open score: base 20, no deal, no status, stage Closed Lost, no
\* CRM activity, scored 10
LowestOpenScoreWitness ==
    /\ scoreOut.called
    /\ scoreOut.base = 20
    /\ scoreIn = [deal |-> 0, status |-> None, stage |-> CLOSED_LOST, crm |-> FALSE]
    /\ scoreOut.score = 10

CarriesDate(doc, f, audit_date) ==
    /\ f \in DOMAIN History(doc)
    /\ History(doc)[f].audit_date = audit_date

\* C27: update_document writes the history entries of lead_status and
\* pipeline_stage together: after any call either both carry the call's
\* audit_date or neither does, and a call that returns has written both as
\* soon as one of the two drawn values differs from the stored one.
PairHistoryWrittenTogether ==
    res.op = "update" =>
        /\ CarriesDate(res.argAfter, "lead_status", res.now)
               <=> CarriesDate(res.argAfter, "pipeline_stage", res.now)
        /\ ("sales_lead" \in DOMAIN res.arg /\ ~res.raised) =>
               (CarriesDate(res.argAfter, "lead_status", res.now)
                   <=> \/ res.pair[1] # Get(res.arg["sales_lead"], "lead_status", None)
                       \/ res.pair[2] # Get(res.arg["sales_lead"], "pipeline_stage", None))

\* the refresh drew the stored status with another stage and wrote both
\* entries, the one for lead_status holding the value the lead still has
StageOnlyChangeWitness ==
    /\ res.op = "update"
    /\ "sales_lead" \in DOMAIN res.arg
    /\ res.pair[1] = res.arg["sales_lead"]["lead_status"]
    /\ res.pair[2] # res.arg["sales_lead"]["pipeline_stage"]
    /\ CarriesDate(res.out, "lead_status", res.now)
    /\ CarriesDate(res.out, "pipeline_stage", res.now)
    /\ History(res.out)["lead_status"].old_value
           = res.out["sales_lead"]["lead_status"]

\* C28: a Save submitted with an empty company name, contact name or contact
\* email is rejected: nothing is written to the store, and the lead's fields
\* and audit history, stored and in memory, are as before the submission.
RejectedSaveWritesNothing ==
    (/\ res.op = "save"
     /\ \/ res.form["company_name"] = ""
        \/ res.form["sales_contact_name"] = ""
        \/ res.form["sales_contact_email"] = "") =>
        /\ res.rejected
        /\ ~res.changed
        /\ store[res.key] = res.replaced
        /\ res.argAfter = res.arg
        /\ res.out = res.arg

\* a Save that would have closed the lead as Lost, submitted without the
\* contact email after the refresh job had written the lead: rejected, the
\* store still holds the job's record
RejectedCloseWitness ==
    /\ res.op = "save"
    /\ res.rejected
    /\ res.form["sales_contact_email"] = ""
    /\ res.form["company_name"] # ""
    /\ res.form["lead_status"] = LOST
    /\ res.arg["sales_lead"]["lead_status"] # LOST
    /\ History(store[res.key]) # EmptyMap
    /\ store[res.key]["sales_lead"]["lead_status"] # LOST

\* C29: the refresh job writes a document back exactly when update_document
\* returned changed = true for it; a document with changed = false is left
\* in the store as it was read; and updated <= total, at the end and all
\* along.
WritesBackIffChanged ==
    /\ job.upserts = job.changes
    /\ job.updated = job.changes
    /\ job.updated <= job.total
    /\ (res.op = "update" /\ ~res.raised) =>
          /\ res.changed => store[res.key] = res.out
          /\ ~res.changed => /\ store[res.key] = res.arg
                             /\ store = [store EXCEPT ![res.key] = res.replaced]

\* a run ended after it visited three documents and wrote one of them: a
\* lead it left as the run before had written it, and a document that is
\* not a lead
MixedRunWitness ==
    /\ job.pc = "done"
    /\ job.run = 2
    /\ job.total = 3
    /\ job.updated = 1
    /\ "sales_lead" \notin DOMAIN store[DocKey("u3")]
    /\ res.op = "update"
    /\ ~res.changed
    /\ "sales_lead" \in DOMAIN res.arg
    /\ store[res.key] = res.arg

\* C30: update_document applied to a document without a "sales_lead" section
\* returns that document unchanged with changed = false, creates no history
\* and raises no error.
NoSalesLeadReturnedUnchanged ==
    (res.op = "update" /\ "sales_lead" \notin DOMAIN res.arg) =>
        /\ ~res.raised
        /\ ~res.changed
        /\ res.out = res.arg
        /\ res.argAfter = res.arg
        /\ "old_data" \notin DOMAIN res.out
        /\ store[res.key] = res.arg

\* update_document ran on a document holding a lead_id alone
NoSalesLeadWitness ==
    /\ res.op = "update"
    /\ res.arg = [lead_id |-> "u1"]
    /\ res.out = [lead_id |-> "u1"]
    /\ ~res.changed
    /\ ~res.raised

====
